---- MODULE Spec2Model ----
(***************************************************************************)
(* Model of otcextensions/sdk/s3/v1/_proxy.py: the S3 Proxy facade.        *)
(* Every facade method builds a boto3 client for the requested region      *)
(* (get_container_endpoint, _set_ak_sk_keys, boto3.client), issues one     *)
(* client call and returns either a translated Container or the response.  *)
(*                                                                         *)
(* Python values: a dict is a function whose DOMAIN is its key set; a str  *)
(* that the code inspects is a sequence of one-character strings; None is  *)
(* the value None_.  Opaque names (regions, bucket names, method names)    *)
(* are TLA+ strings.                                                       *)
(***************************************************************************)
EXTENDS Integers, Sequences, FiniteSets, TLC

VARIABLES
    env,          \* the session's connection: has get_ak_sk?, the AK/SK it gives
    pc,           \* pc[t]: position of caller t inside its facade invocation
    args,         \* args[t]: the arguments of caller t's invocation
    endpoint,     \* endpoint[t]: local `endpoint` of get_boto3_client
    keys,         \* keys[t]: what _set_ak_sk_keys returned to get_boto3_client
    s3_client,    \* s3_client[t]: the client handle the invocation uses
    sent,         \* sent[t]: the client call issued by this invocation
    nreq,         \* nreq[t]: number of client calls issued by this invocation
    response,     \* response[t]: what the client call returned
    f,            \* f[t]: download_object's destination handle
    dest,         \* dest[t]: what this invocation did to the destination file
    result,       \* result[t]: what the caller got (return value or exception)
    constructed,  \* constructed[r]: number of boto3 clients built for region r
    used,         \* the client handles of the client calls, in issue order
    ninv          \* number of facade invocations made so far

vars == <<env, pc, args, endpoint, keys, s3_client, sent, nreq, response,
          f, dest, result, constructed, used, ninv>>

-----------------------------------------------------------------------------
(* Bounds *)

\* total number of facade invocations in a behaviour
MaxCalls == 2
\* longest source path given to upload_object
MaxLen == 3

-----------------------------------------------------------------------------
(* Python values *)

None_ == <<"None">>
EmptyDict == [k \in {} |-> None_]

\* Python truthiness of a str-or-None
Truthy(s) == s # None_ /\ s # <<>>

\* d1 updated with the entries of d2 (f(a=1, **kwargs), kwargs['ACL'] = acl)
Merge(d1, d2) ==
    [k \in DOMAIN d1 \cup DOMAIN d2 |-> IF k \in DOMAIN d2 THEN d2[k] ELSE d1[k]]

Callers == {"c1", "c2"}
Regions == {"eu-de", "eu-nl"}
Alphabet == {"/", "a"}

RECURSIVE StrsOfLen(_)
StrsOfLen(n) ==
    IF n = 0 THEN {<<>>}
    ELSE {Append(s, c) : s \in StrsOfLen(n - 1), c \in Alphabet}

Paths == UNION {StrsOfLen(n) : n \in 0..MaxLen}

-----------------------------------------------------------------------------
(* The facade's methods and their arguments *)

ContainerOps ==
    {"create_container", "get_container", "delete_container",
     "get_container_acl", "put_container_acl", "put_container_policy",
     "get_container_policy", "delete_container_policy"}

ForwardOps ==
    {"objects", "upload_object", "copy_object", "upload_part_copy",
     "get_object", "delete_object"}

Ops == ContainerOps \cup ForwardOps \cup {"containers", "download_object"}

\* **kwargs as the caller may give them
Kwargs == {EmptyDict, [VersionId |-> <<"v">>]}
CopyKwargs == Kwargs \cup {[ACL |-> <<"q">>]}

Call(op, region, kwargs, key, file_name, acl) ==
    [op |-> op, region |-> region, container_name |-> "bucket-a",
     kwargs |-> kwargs, key |-> key, file_name |-> file_name, acl |-> acl]

NoArgs == Call("none", "none", EmptyDict, None_, None_, None_)

\* the calls a caller can make of method op (its signature)
ArgsOf(op) ==
    CASE op \in {"delete_container"} ->
           {Call(op, r, EmptyDict, None_, None_, None_) : r \in Regions}
      [] op = "upload_object" ->
           {Call(op, r, kw, k, fn, None_) :
              r \in Regions, kw \in Kwargs, k \in {None_, <<>>, <<"k">>},
              fn \in Paths}
      [] op = "download_object" ->
           {Call(op, r, EmptyDict, k, <<"o">>, None_) :
              r \in Regions, k \in {None_, <<"k">>}}
      [] op = "copy_object" ->
           {Call(op, r, kw, <<"k">>, None_, acl) :
              r \in Regions, kw \in CopyKwargs, acl \in {None_, <<>>, <<"p">>}}
      [] op \in {"upload_part_copy", "get_object", "delete_object"} ->
           {Call(op, r, kw, <<"k">>, None_, None_) :
              r \in Regions, kw \in Kwargs}
      [] OTHER ->
           {Call(op, r, kw, None_, None_, None_) : r \in Regions, kw \in Kwargs}

-----------------------------------------------------------------------------
(* Pure parts of the code *)

\* get_container_endpoint: scheme://netloc of the service endpoint, with the
\* region substituted for %(region_name)s
get_container_endpoint(region) ==
    [scheme |-> "https", netloc |-> <<"obs.", region, ".otc.t-systems.com">>]

\* the session's connections: with or without get_ak_sk, and what it gives
Envs ==
    {[has_get_ak_sk |-> TRUE, ak |-> a, sk |-> s] :
        a \in {<<>>, <<"A", "K">>}, s \in {<<>>, <<"S", "K">>}}
    \cup {[has_get_ak_sk |-> FALSE, ak |-> <<>>, sk |-> <<>>]}

Raise(exc) == [kind |-> "raise", value |-> None_, exc |-> exc]
Return(v) == [kind |-> "return", value |-> v, exc |-> ""]

\* _set_ak_sk_keys: without get_ak_sk the locals ak, sk are never assigned and
\* `if not (ak and sk)` reads them; with empty keys it logs and returns None
_set_ak_sk_keys(conn) ==
    IF ~conn.has_get_ak_sk THEN Raise("UnboundLocalError")
    ELSE IF ~(Truthy(conn.ak) /\ Truthy(conn.sk)) THEN Return(None_)
    ELSE Return(<<conn.ak, conn.sk>>)

\* `ak, sk = self._set_ak_sk_keys()` in get_boto3_client: unpacking None
\* raises TypeError
UnpackKeys(r) ==
    IF r.kind = "raise" THEN r
    ELSE IF Len(r.value) # 2 THEN Raise("TypeError")
    ELSE r

\* os.path.basename: i = p.rfind('/') + 1; return p[i:]
RFind(p, c) ==
    LET hits == {i \in 1..Len(p) : p[i] = c}
    IN  IF hits = {} THEN 0 ELSE CHOOSE i \in hits : \A j \in hits : j <= i

\* faulty variant: the key is the source path itself
basename_WholePath(p) == p

basename(p) == SubSeq(p, RFind(p, "/") + 1, Len(p))

\* upload_object: `if key is None: key = os.path.basename(file_name)`
UploadKey(a) == IF a.key = None_ THEN basename(a.file_name) ELSE a.key

\* copy_object: `if acl: kwargs['ACL'] = acl`
CopyKwargsOf(a) ==
    IF Truthy(a.acl) THEN Merge(a.kwargs, [ACL |-> a.acl]) ELSE a.kwargs

\* delete_object: the client call is given Bucket and Key only
DeleteObjectParams(a) == [Bucket |-> a.container_name, Key |-> a.key]

\* the client method each facade method calls, and the parameters it passes
ClientCall(a) ==
    CASE a.op = "containers" ->
           [method |-> "list_buckets", params |-> EmptyDict]
      [] a.op = "create_container" ->
           [method |-> "create_bucket",
            params |-> Merge(a.kwargs,
                [Bucket |-> a.container_name,
                 CreateBucketConfiguration |-> [LocationConstraint |-> a.region]])]
      [] a.op = "get_container" ->
           [method |-> "head_bucket",
            params |-> Merge(a.kwargs, [Bucket |-> a.container_name])]
      [] a.op = "delete_container" ->
           [method |-> "delete_bucket",
            params |-> [Bucket |-> a.container_name]]
      [] a.op = "get_container_acl" ->
           [method |-> "get_bucket_acl",
            params |-> Merge(a.kwargs, [Bucket |-> a.container_name])]
      [] a.op = "put_container_acl" ->
           [method |-> "put_bucket_acl",
            params |-> Merge(a.kwargs, [Bucket |-> a.container_name])]
      [] a.op = "put_container_policy" ->
           [method |-> "put_bucket_policy",
            params |-> Merge(a.kwargs,
                [Bucket |-> a.container_name, Policy |-> "policy"])]
      [] a.op = "get_container_policy" ->
           [method |-> "get_bucket_policy",
            params |-> Merge(a.kwargs, [Bucket |-> a.container_name])]
      [] a.op = "delete_container_policy" ->
           [method |-> "delete_bucket_policy",
            params |-> Merge(a.kwargs, [Bucket |-> a.container_name])]
      [] a.op = "objects" ->
           [method |-> "list_objects",
            params |-> Merge(a.kwargs, [Bucket |-> a.container_name])]
      [] a.op = "upload_object" ->
           [method |-> "upload_file",
            params |-> Merge(a.kwargs,
                [Fileobj |-> a.file_name, Bucket |-> a.container_name,
                 Key |-> UploadKey(a)])]
      [] a.op = "download_object" ->
           [method |-> "download_fileobj",
            params |-> [Bucket |-> a.container_name, Key |-> a.key,
                        Fileobj |-> "f"]]
      [] a.op = "copy_object" ->
           [method |-> "copy_object",
            params |-> Merge(CopyKwargsOf(a),
                [Bucket |-> a.container_name, CopySource |-> "source",
                 Key |-> a.key])]
      [] a.op = "upload_part_copy" ->
           [method |-> "upload_part_copy",
            params |-> Merge(a.kwargs,
                [Bucket |-> a.container_name, CopySource |-> "source",
                 PartNumber |-> "part", UploadId |-> "upload", Key |-> a.key])]
      [] a.op = "get_object" ->
           [method |-> "get_object",
            params |-> Merge(a.kwargs,
                [Bucket |-> a.container_name, Key |-> a.key])]
      [] a.op = "delete_object" ->
           [method |-> "delete_object", params |-> DeleteObjectParams(a)]

NoCall == [method |-> "none", params |-> EmptyDict]

\* what a client call can return
Envelope(code) ==
    [ResponseMetadata |-> [RequestId |-> "r", HTTPStatusCode |-> code]]
StatusCodes == {200, 204, 404}
Responses ==
    {[Body |-> "b"],
     [ResponseMetadata |-> EmptyDict],
     [ResponseMetadata |-> [RequestId |-> "r"]]}
    \cup {Envelope(c) : c \in StatusCodes}
BucketLists ==
    {[Buckets |-> <<>>],
     [Buckets |-> <<[Name |-> "bucket-a"]>>],
     [Buckets |-> <<[Name |-> "bucket-a"], [Name |-> "bucket-b"]>>],
     Envelope(200)}

ResponsesOf(op) ==
    IF op \in ContainerOps THEN Responses
    ELSE IF op = "containers" THEN BucketLists
    ELSE {Envelope(200), [Body |-> "b"]}

\* response.get('ResponseMetadata') is truthy
HasMetadata(r) ==
    "ResponseMetadata" \in DOMAIN r /\ DOMAIN r.ResponseMetadata # {}

\* response.get('ResponseMetadata').get('HTTPStatusCode', None) == code
StatusIs(r, code) ==
    /\ "HTTPStatusCode" \in DOMAIN r.ResponseMetadata
    /\ r.ResponseMetadata.HTTPStatusCode = code

\* faulty variant: the deletes compare with 200 like the other methods
ExpectedStatus_Always200(op) == 200

\* the status code each container method compares with
ExpectedStatus(op) ==
    IF op \in {"delete_container", "delete_container_policy"} THEN 204 ELSE 200

\* Container.new()._translate_response(response)
TranslateResponse(r) == [kind |-> "Container", value |-> r, exc |-> "", idx |-> 0]
\* Container.new()._translate_container_response(bucket)
TranslateBucket(b, i) == [kind |-> "yield", value |-> b, exc |-> "", idx |-> i]

Raw(r) == [kind |-> "raw", value |-> r, exc |-> "", idx |-> 0]
Raised(exc) == [kind |-> "raise", value |-> EmptyDict, exc |-> exc, idx |-> 0]
NoResult == [kind |-> "none", value |-> EmptyDict, exc |-> "", idx |-> 0]
Generator == [kind |-> "generator", value |-> EmptyDict, exc |-> "", idx |-> 0]
Exhausted == [kind |-> "exhausted", value |-> EmptyDict, exc |-> "", idx |-> 0]
ReturnedNone == [kind |-> "None", value |-> EmptyDict, exc |-> "", idx |-> 0]

\* faulty variant: a response without metadata passes for a success
Normalize_NoMetadataIsSuccess(r, op) ==
    IF ~HasMetadata(r) \/ StatusIs(r, ExpectedStatus(op))
    THEN TranslateResponse(r)
    ELSE Raw(r)

\* the tail of every container method: the translated Container when the
\* metadata is there and carries the expected code, else the response itself
Normalize(r, op) ==
    IF HasMetadata(r) /\ StatusIs(r, ExpectedStatus(op))
    THEN TranslateResponse(r)
    ELSE Raw(r)

-----------------------------------------------------------------------------
(* State *)

Resting == {"idle", "returned", "raised", "gen_created", "yielded"}

NoClient == [region |-> "none", serial |-> 0]

Init ==
    /\ env \in Envs
    /\ pc = [t \in Callers |-> "idle"]
    /\ args = [t \in Callers |-> NoArgs]
    /\ endpoint = [t \in Callers |-> None_]
    /\ keys = [t \in Callers |-> None_]
    /\ s3_client = [t \in Callers |-> NoClient]
    /\ sent = [t \in Callers |-> NoCall]
    /\ nreq = [t \in Callers |-> 0]
    /\ response = [t \in Callers |-> EmptyDict]
    /\ f = [t \in Callers |-> "none"]
    /\ dest = [t \in Callers |-> "untouched"]
    /\ result = [t \in Callers |-> NoResult]
    /\ constructed = [r \in Regions |-> 0]
    /\ used = <<>>
    /\ ninv = 0

\* caller t calls facade method op.  containers is a generator function: the
\* call returns a generator and runs nothing of the body
Invoke(t, op) ==
    /\ pc[t] \in Resting
    /\ ninv < MaxCalls
    /\ \E a \in ArgsOf(op) : args' = [args EXCEPT ![t] = a]
    /\ ninv' = ninv + 1
    /\ pc' = [pc EXCEPT ![t] = IF op = "containers" THEN "gen_created" ELSE "start"]
    /\ result' = [result EXCEPT ![t] = IF op = "containers" THEN Generator ELSE NoResult]
    /\ endpoint' = [endpoint EXCEPT ![t] = None_]
    /\ keys' = [keys EXCEPT ![t] = None_]
    /\ s3_client' = [s3_client EXCEPT ![t] = NoClient]
    /\ sent' = [sent EXCEPT ![t] = NoCall]
    /\ nreq' = [nreq EXCEPT ![t] = 0]
    /\ response' = [response EXCEPT ![t] = EmptyDict]
    /\ f' = [f EXCEPT ![t] = "none"]
    /\ dest' = [dest EXCEPT ![t] = "untouched"]
    /\ UNCHANGED <<env, constructed, used>>

\* the first next() on the generator of containers starts its body
GenStart(t) ==
    /\ pc[t] = "gen_created"
    /\ pc' = [pc EXCEPT ![t] = "start"]
    /\ result' = [result EXCEPT ![t] = NoResult]
    /\ UNCHANGED <<env, args, endpoint, keys, s3_client, sent, nreq, response,
                   f, dest, constructed, used, ninv>>

\* faulty variant: get_boto3_client runs under one lock shared by all regions
GetContainerEndpoint_GlobalLock(t) ==
    /\ pc[t] = "start"
    /\ \A u \in Callers \ {t} : pc[u] \notin {"endpoint", "keys"}
    /\ endpoint' = [endpoint EXCEPT ![t] = get_container_endpoint(args[t].region)]
    /\ pc' = [pc EXCEPT ![t] = "endpoint"]
    /\ UNCHANGED <<env, args, keys, s3_client, sent, nreq, response, f, dest,
                   result, constructed, used, ninv>>

\* get_boto3_client, first line: endpoint = self.get_container_endpoint(region)
GetContainerEndpoint(t) ==
    /\ pc[t] = "start"
    /\ endpoint' = [endpoint EXCEPT ![t] = get_container_endpoint(args[t].region)]
    /\ pc' = [pc EXCEPT ![t] = "endpoint"]
    /\ UNCHANGED <<env, args, keys, s3_client, sent, nreq, response, f, dest,
                   result, constructed, used, ninv>>

\* get_boto3_client, second line: ak, sk = self._set_ak_sk_keys()
SetAkSkKeys(t) ==
    /\ pc[t] = "endpoint"
    /\ LET r == UnpackKeys(_set_ak_sk_keys(env))
       IN  IF r.kind = "raise"
           THEN /\ pc' = [pc EXCEPT ![t] = "raised"]
                /\ result' = [result EXCEPT ![t] = Raised(r.exc)]
                /\ keys' = keys
           ELSE /\ pc' = [pc EXCEPT ![t] = "keys"]
                /\ keys' = [keys EXCEPT ![t] = r.value]
                /\ result' = result
    /\ UNCHANGED <<env, args, endpoint, s3_client, sent, nreq, response, f,
                   dest, constructed, used, ninv>>

\* faulty variant: one cached client per region
NewClient_Memoized(region) == [region |-> region, serial |-> 1]

\* the handle boto3.client(...) returns: a new client object on every call
NewClient(region) == [region |-> region, serial |-> constructed[region] + 1]

\* get_boto3_client, last lines: s3_client = boto3.client(...); return it.
\* constructed[r] is the serial of the newest client built for r, which is
\* the number of clients built for r
Boto3Client(t) ==
    /\ pc[t] = "keys"
    /\ LET c == NewClient(args[t].region)
       IN  /\ s3_client' = [s3_client EXCEPT ![t] = c]
           /\ constructed' =
                [constructed EXCEPT ![c.region] =
                    IF c.serial > @ THEN c.serial ELSE @]
    /\ pc' = [pc EXCEPT ![t] = "client"]
    /\ UNCHANGED <<env, args, endpoint, keys, sent, nreq, response, f, dest,
                   result, used, ninv>>

\* faulty variant: download_object opens the destination before it gets the client
OpenDestination_BeforeClient(t) ==
    /\ pc[t] \in {"start", "client"}
    /\ args[t].op = "download_object"
    /\ f[t] = "none"
    /\ f' = [f EXCEPT ![t] = "open"]
    /\ dest' = [dest EXCEPT ![t] = "truncated"]
    /\ pc' = [pc EXCEPT ![t] = IF pc[t] = "client" THEN "opened" ELSE "start"]
    /\ UNCHANGED <<env, args, endpoint, keys, s3_client, sent, nreq, response,
                   result, constructed, used, ninv>>

\* download_object: `with open(file_name, 'wb') as f:` -- the file is created
\* or truncated and the handle is open, or open() raises
OpenDestination(t) ==
    /\ pc[t] = "client"
    /\ args[t].op = "download_object"
    /\ \/ /\ f' = [f EXCEPT ![t] = "open"]
          /\ dest' = [dest EXCEPT ![t] = "truncated"]
          /\ pc' = [pc EXCEPT ![t] = "opened"]
          /\ result' = result
       \/ /\ pc' = [pc EXCEPT ![t] = "raised"]
          /\ result' = [result EXCEPT ![t] = Raised("OSError")]
          /\ UNCHANGED <<f, dest>>
    /\ UNCHANGED <<env, args, endpoint, keys, s3_client, sent, nreq, response,
                   constructed, used, ninv>>

\* the one client call of every method but download_object: it returns a
\* response or raises
SendRequest(t) ==
    /\ pc[t] = "client"
    /\ args[t].op # "download_object"
    /\ sent' = [sent EXCEPT ![t] = ClientCall(args[t])]
    /\ nreq' = [nreq EXCEPT ![t] = @ + 1]
    /\ used' = Append(used, s3_client[t])
    /\ \/ \E r \in ResponsesOf(args[t].op) :
            /\ response' = [response EXCEPT ![t] = r]
            /\ pc' = [pc EXCEPT ![t] = "responded"]
            /\ result' = result
       \/ /\ pc' = [pc EXCEPT ![t] = "raised"]
          /\ result' = [result EXCEPT ![t] = Raised("ClientError")]
          /\ response' = response
    /\ UNCHANGED <<env, args, endpoint, keys, s3_client, f, dest, constructed,
                   ninv>>

\* download_object: s3_client.download_fileobj(container_name, key, f) inside
\* the with block; it writes the whole object or fails part-way
DownloadFileobj(t) ==
    /\ pc[t] = "opened"
    /\ sent' = [sent EXCEPT ![t] = ClientCall(args[t])]
    /\ nreq' = [nreq EXCEPT ![t] = @ + 1]
    /\ used' = Append(used, s3_client[t])
    /\ \/ /\ dest' = [dest EXCEPT ![t] = "complete"]
          /\ result' = result
       \/ /\ dest' = [dest EXCEPT ![t] = "partial"]
          /\ result' = [result EXCEPT ![t] = Raised("ClientError")]
    /\ pc' = [pc EXCEPT ![t] = "with_exit"]
    /\ UNCHANGED <<env, args, endpoint, keys, s3_client, response, f,
                   constructed, ninv>>

\* faulty variant: f is closed on the normal path only (open/close without with)
WithExit_NoCloseOnError(t) ==
    /\ pc[t] = "with_exit"
    /\ IF result[t].kind = "raise"
       THEN /\ pc' = [pc EXCEPT ![t] = "raised"]
            /\ UNCHANGED <<result, f>>
       ELSE /\ pc' = [pc EXCEPT ![t] = "returned"]
            /\ f' = [f EXCEPT ![t] = "closed"]
            /\ result' = [result EXCEPT ![t] = ReturnedNone]
    /\ UNCHANGED <<env, args, endpoint, keys, s3_client, sent, nreq, response,
                   dest, constructed, used, ninv>>

\* download_object: leaving the with block closes f, then the method returns
\* None or the pending exception goes on to the caller
WithExit(t) ==
    /\ pc[t] = "with_exit"
    /\ f' = [f EXCEPT ![t] = "closed"]
    /\ IF result[t].kind = "raise"
       THEN /\ pc' = [pc EXCEPT ![t] = "raised"]
            /\ result' = result
       ELSE /\ pc' = [pc EXCEPT ![t] = "returned"]
            /\ result' = [result EXCEPT ![t] = ReturnedNone]
    /\ UNCHANGED <<env, args, endpoint, keys, s3_client, sent, nreq, response,
                   dest, constructed, used, ninv>>

\* faulty variant: a response that is not the success is sent again
NormalizeResponse_Retry(t) ==
    /\ pc[t] = "responded"
    /\ args[t].op \in ContainerOps
    /\ IF Normalize(response[t], args[t].op).kind = "Container"
       THEN /\ result' = [result EXCEPT ![t] = Normalize(response[t], args[t].op)]
            /\ pc' = [pc EXCEPT ![t] = "returned"]
       ELSE /\ result' = result
            /\ pc' = [pc EXCEPT ![t] = "client"]
    /\ UNCHANGED <<env, args, endpoint, keys, s3_client, sent, nreq, response,
                   f, dest, constructed, used, ninv>>

\* the tail of the eight container methods
NormalizeResponse(t) ==
    /\ pc[t] = "responded"
    /\ args[t].op \in ContainerOps
    /\ result' = [result EXCEPT ![t] = Normalize(response[t], args[t].op)]
    /\ pc' = [pc EXCEPT ![t] = "returned"]
    /\ UNCHANGED <<env, args, endpoint, keys, s3_client, sent, nreq, response,
                   f, dest, constructed, used, ninv>>

\* objects, upload_object, copy_object, upload_part_copy, get_object,
\* delete_object: `return response`
ReturnResponse(t) ==
    /\ pc[t] = "responded"
    /\ args[t].op \in ForwardOps
    /\ result' = [result EXCEPT ![t] = Raw(response[t])]
    /\ pc' = [pc EXCEPT ![t] = "returned"]
    /\ UNCHANGED <<env, args, endpoint, keys, s3_client, sent, nreq, response,
                   f, dest, constructed, used, ninv>>

\* containers: buckets = response.get('Buckets'); `for bucket in buckets`
\* yields the i-th translated bucket, ends, or fails on buckets = None
YieldFrom(t, i) ==
    IF "Buckets" \notin DOMAIN response[t]
    THEN /\ pc' = [pc EXCEPT ![t] = "raised"]
         /\ result' = [result EXCEPT ![t] = Raised("TypeError")]
    ELSE IF i > Len(response[t].Buckets)
    THEN /\ pc' = [pc EXCEPT ![t] = "returned"]
         /\ result' = [result EXCEPT ![t] = Exhausted]
    ELSE /\ pc' = [pc EXCEPT ![t] = "yielded"]
         /\ result' = [result EXCEPT ![t] = TranslateBucket(response[t].Buckets[i], i)]

IterateBuckets(t) ==
    /\ pc[t] = "responded"
    /\ args[t].op = "containers"
    /\ YieldFrom(t, 1)
    /\ UNCHANGED <<env, args, endpoint, keys, s3_client, sent, nreq, response,
                   f, dest, constructed, used, ninv>>

\* a further next() on the generator of containers
GenNext(t) ==
    /\ pc[t] = "yielded"
    /\ YieldFrom(t, result[t].idx + 1)
    /\ UNCHANGED <<env, args, endpoint, keys, s3_client, sent, nreq, response,
                   f, dest, constructed, used, ninv>>

Step(t) ==
    \/ GenStart(t)
    \/ GetContainerEndpoint(t)
    \/ SetAkSkKeys(t)
    \/ Boto3Client(t)
    \/ OpenDestination(t)
    \/ SendRequest(t)
    \/ DownloadFileobj(t)
    \/ WithExit(t)
    \/ NormalizeResponse(t)
    \/ ReturnResponse(t)
    \/ IterateBuckets(t)
    \/ GenNext(t)

\* one caller using the facade, one invocation after the other
Next ==
    \/ \E op \in Ops : Invoke("c1", op)
    \/ Step("c1")

Spec == Init /\ [][Next]_vars

\* two callers using the same Proxy at once
ConcOps == {"get_container", "download_object"}

NextConc ==
    \E t \in Callers :
        \/ \E op \in ConcOps : Invoke(t, op)
        \/ GetContainerEndpoint(t)
        \/ SetAkSkKeys(t)
        \/ Boto3Client(t)
        \/ OpenDestination(t)
        \/ SendRequest(t)
        \/ DownloadFileobj(t)
        \/ WithExit(t)
        \/ NormalizeResponse(t)

SpecConc == Init /\ [][NextConc]_vars

-----------------------------------------------------------------------------
(* Properties *)

Range(q) == {q[i] : i \in DOMAIN q}
Finished(t) == pc[t] \in {"returned", "raised"}
InResolve == {"start", "endpoint", "keys"}

C2_CredentialUnavailable ==
    \A t \in Callers :
        (/\ pc[t] = "raised"
         /\ \/ ~env.has_get_ak_sk
            \/ env.ak = <<>> /\ env.sk = <<>>)
        => /\ result[t].exc = "CredentialUnavailable"
           /\ s3_client[t] = NoClient

IsBaseName(k, p) ==
    \E i \in 0..Len(p) :
        /\ k = SubSeq(p, i + 1, Len(p))
        /\ "/" \notin Range(k)
        /\ i = 0 \/ p[i] = "/"

C5_HandleReleased ==
    \A t \in Callers :
        (args[t].op = "download_object" /\ Finished(t)) => f[t] # "open"

\* C5 witness: a transfer failed part-way, the error reached the caller and
\* the handle is closed
C5_Witness ==
    /\ args["c1"].op = "download_object"
    /\ pc["c1"] = "raised"
    /\ dest["c1"] = "partial"
    /\ f["c1"] = "closed"

C7_ExactlyOneRequest ==
    \A t \in Callers : (Finished(t) /\ keys[t] # None_) => nreq[t] = 1

\* C7 (amended): an invocation never issues more than one client call; it has
\* issued exactly one when it returns a result, and none when it failed before
\* the call (client not built, destination not opened).
C7_AtMostOneRequest ==
    \A t \in Callers :
        /\ nreq[t] <= 1
        /\ pc[t] \in {"responded", "with_exit", "returned", "yielded"} => nreq[t] = 1
        /\ (pc[t] = "raised" /\ (s3_client[t] = NoClient \/ result[t].exc = "OSError"))
             => nreq[t] = 0

\* C7 witness: a container method returned a non-success after one client call
C7_Witness ==
    /\ pc["c1"] = "returned"
    /\ args["c1"].op = "get_container"
    /\ response["c1"] = Envelope(404)
    /\ nreq["c1"] = 1

ResolveStep(t) == GetContainerEndpoint(t) \/ SetAkSkKeys(t) \/ Boto3Client(t)

\* C8: two callers building clients for different regions never block each
\* other: while both are inside get_boto3_client, each can take its next step.
C8_DifferentRegionsDoNotBlock ==
    \A t, u \in Callers :
        (/\ t # u
         /\ pc[t] \in InResolve
         /\ pc[u] \in InResolve
         /\ args[t].region # args[u].region)
        => ENABLED ResolveStep(t)

\* C8 witness: both callers are inside get_boto3_client, for different regions
C8_Witness ==
    /\ pc["c1"] = "keys"
    /\ pc["c2"] = "endpoint"
    /\ args["c1"].region # args["c2"].region

\* C9 (as claimed): copy_object, upload_part_copy, get_object and delete_object
\* pass the container name, the key and every option of the caller to the
\* client call (copy_object adds ACL when acl is non-empty).
C9_OptionsForwarded ==
    \A t \in Callers :
        sent[t].method \in {"copy_object", "upload_part_copy", "get_object",
                            "delete_object"} =>
            LET a == args[t]
                opts == IF a.op = "copy_object" /\ a.acl # None_ /\ a.acl # <<>>
                        THEN [k \in DOMAIN a.kwargs \cup {"ACL"} |->
                                IF k = "ACL" THEN a.acl ELSE a.kwargs[k]]
                        ELSE a.kwargs
            IN  /\ sent[t].params.Bucket = a.container_name
                /\ sent[t].params.Key = a.key
                /\ \A k \in DOMAIN opts :
                     k \in DOMAIN sent[t].params /\ sent[t].params[k] = opts[k]

\* C10: until the client for the region is built nothing else has happened: no
\* client call has been issued and the destination of download_object has
\* been neither opened nor truncated; so it is when building the client fails.
C10_ClientBeforeEffects ==
    \A t \in Callers :
        s3_client[t] = NoClient =>
            /\ nreq[t] = 0
            /\ sent[t] = NoCall
            /\ f[t] = "none"
            /\ dest[t] = "untouched"

\* C10 witness: download_object failed while building the client
C10_Witness ==
    /\ args["c1"].op = "download_object"
    /\ pc["c1"] = "raised"
    /\ s3_client["c1"] = NoClient

====
